---- MODULE Spec2Model ----
(***************************************************************************)
(* A model of SceneManager (Source/SceneManager.cpp): the texture          *)
(* registry, the material registry, the shader-uniform setters and the     *)
(* PrepareScene / RenderScene scene script, together with the parts of the *)
(* OpenGL context, the stb_image heap, the ShaderManager and the           *)
(* ShapeMeshes library that these methods act on.                          *)
(*                                                                         *)
(* Every method is an operator from a program state (a record `s` holding  *)
(* the fields below) to the state after the call; a method's return value  *)
(* is left in s.ret.  An action calls one public method on the current     *)
(* state.  Floating-point literals are kept as integers in hundredths.     *)
(***************************************************************************)
EXTENDS Integers, Sequences, FiniteSets, TLC

VARIABLES
    m_pShaderManager,   \* NULL or the shader manager handed to the constructor
    m_loadedTextures,   \* number of registered textures
    m_textureIDs,       \* the registry array: index -> [ID, tag]
    m_objectMaterials,  \* std::vector<OBJECT_MATERIAL>
    m_basicMeshes,      \* ShapeMeshes: mesh kind -> number of Load*Mesh calls
    gl,                 \* OpenGL context: names generated, active unit, bindings, texture objects
    stbiLive,           \* decoded image buffers not yet freed
    uniforms,           \* the shader program's uniforms written so far: name -> value
    fault,              \* "none", or the undefined behaviour the process ran into
    ret,                \* the most recent method call and its return value
    trace,              \* calls made by the most recent public call, in order
    ghost               \* history kept for the properties only

vars == <<m_pShaderManager, m_loadedTextures, m_textureIDs, m_objectMaterials,
          m_basicMeshes, gl, stbiLive, uniforms, fault, ret, trace, ghost>>

-----------------------------------------------------------------------------
(* Bounds of the model *)

\* API calls the driver makes in Spec
MaxCalls == 3
\* texture loads that may fail during one PrepareScene
MaxFailures == 2
\* RenderScene calls (frames) in SpecScene
MaxRenders == 2
\* failed loads in SpecCapacity
MaxCapFailures == 2
\* materials defined in SpecMaterial
MaxMaterials == 3

(* Program constants *)

\* "There are up to 16 slots": texture units, and the length of m_textureIDs
TextureSlots == 16

NULL == "NULL"
NoFault == "none"

\* tags the driver passes in Spec; "wood" is used by no scene object
Tags == {"box", "counter", "wood"}
\* what stbi_load yields: 0 is a NULL image, otherwise colorChannels
StbiResults == {0, 2, 3, 4}
\* the value of an OBJECT_MATERIAL that was declared and never assigned
Indeterminate == {[diffuseColor |-> <<-1, -1, -1>>, specularColor |-> <<-1, -1, -1>>,
                   shininess |-> -1, tag |-> ""],
                  [diffuseColor |-> <<7, 7, 7>>, specularColor |-> <<7, 7, 7>>,
                   shininess |-> 7, tag |-> ""]}

MeshKinds == {"Plane", "Sphere", "Cylinder", "Torus", "Box", "TaperedCylinder"}

-----------------------------------------------------------------------------
(* The program state as one record, and its assignment to the variables *)

State ==
    [m_pShaderManager |-> m_pShaderManager, m_loadedTextures |-> m_loadedTextures,
     m_textureIDs |-> m_textureIDs, m_objectMaterials |-> m_objectMaterials,
     m_basicMeshes |-> m_basicMeshes, gl |-> gl, stbiLive |-> stbiLive,
     uniforms |-> uniforms, fault |-> fault, ret |-> ret, trace |-> trace,
     ghost |-> ghost]

Becomes(s) ==
    /\ m_pShaderManager' = s.m_pShaderManager
    /\ m_loadedTextures' = s.m_loadedTextures
    /\ m_textureIDs' = s.m_textureIDs
    /\ m_objectMaterials' = s.m_objectMaterials
    /\ m_basicMeshes' = s.m_basicMeshes
    /\ gl' = s.gl
    /\ stbiLive' = s.stbiLive
    /\ uniforms' = s.uniforms
    /\ fault' = s.fault
    /\ ret' = s.ret
    /\ trace' = s.trace
    /\ ghost' = s.ghost

Event(call, name, value) == [call |-> call, name |-> name, value |-> value]

Emit(s, call, name, value) == [s EXCEPT !.trace = Append(@, Event(call, name, value))]

Return(s, op, name, result) == [s EXCEPT !.ret = [op |-> op, name |-> name, result |-> result]]

\* a statement runs only if the process is still defined
Run(s, t) == IF s.fault # NoFault THEN s ELSE t

\* the collapsed order of the phases: a phase is appended when it differs from the last
Phase(s, p) ==
    IF Len(s.ghost.order) > 0 /\ s.ghost.order[Len(s.ghost.order)] = p
    THEN s
    ELSE [s EXCEPT !.ghost.order = Append(@, p)]

-----------------------------------------------------------------------------
(* OpenGL and stb_image, as far as SceneManager uses them *)

NewTexture == [wrapS |-> "default", wrapT |-> "default", minFilter |-> "default",
               magFilter |-> "default", format |-> "none", mipmap |-> FALSE]

\* glGenTextures(1, &id): a name never returned before; the name is s.gl.generated + 1
glGenTextures(s) ==
    [s EXCEPT !.gl.generated = @ + 1, !.gl.tex = Append(@, NewTexture)]

\* glActiveTexture(GL_TEXTURE0 + unit): GL_INVALID_ENUM leaves the active unit as it is
glActiveTexture(s, unit) ==
    IF unit \in 0..(TextureSlots - 1) THEN [s EXCEPT !.gl.active = unit] ELSE s

\* glBindTexture(GL_TEXTURE_2D, id) acts on the active unit
glBindTexture(s, id) == [s EXCEPT !.gl.bound[s.gl.active] = id]

BoundTexture(s) == s.gl.bound[s.gl.active]

glTexParameteri(s, pname, value) ==
    IF BoundTexture(s) = 0 THEN s ELSE [s EXCEPT !.gl.tex[BoundTexture(s)][pname] = value]

glTexImage2D(s, internalformat) ==
    IF BoundTexture(s) = 0 THEN s ELSE [s EXCEPT !.gl.tex[BoundTexture(s)].format = internalformat]

glGenerateMipmap(s) ==
    IF BoundTexture(s) = 0 THEN s ELSE [s EXCEPT !.gl.tex[BoundTexture(s)].mipmap = TRUE]

\* stbi_load returned a buffer / stbi_image_free released it
stbi_load(s) == [s EXCEPT !.stbiLive = @ + 1]
stbi_image_free(s) == [s EXCEPT !.stbiLive = @ - 1]

-----------------------------------------------------------------------------
(* The texture registry *)

\* RegisterTexture without m_loadedTextures++
RegisterTexture_NoIncrement(s, textureID, tag) ==
    IF s.m_loadedTextures < TextureSlots
    THEN [s EXCEPT !.m_textureIDs[s.m_loadedTextures] = [ID |-> textureID, tag |-> tag]]
    ELSE [s EXCEPT !.fault = "out-of-bounds store"]

\* m_textureIDs[m_loadedTextures] = {textureID, tag}; m_loadedTextures++
\* A store past the end of the array is undefined behaviour.
RegisterTexture(s, textureID, tag) ==
    IF s.m_loadedTextures < TextureSlots
    THEN [s EXCEPT !.m_textureIDs[s.m_loadedTextures] = [ID |-> textureID, tag |-> tag],
                   !.m_loadedTextures = @ + 1]
    ELSE [s EXCEPT !.fault = "out-of-bounds store", !.m_loadedTextures = @ + 1]

\* CreateGLTexture with the channel test after the registration instead of before it
CreateGLTextureImage_RegisterAnyway(s, tag, colorChannels) ==
    LET textureID == s.gl.generated + 1
        s1 == glBindTexture(glGenTextures(s), textureID)
        s2 == glTexImage2D(s1, IF colorChannels = 3 THEN "GL_RGB8" ELSE "GL_RGBA8")
        s3 == glBindTexture(stbi_image_free(glGenerateMipmap(s2)), 0)
        s4 == RegisterTexture(s3, textureID, tag)
    IN  IF colorChannels \notin {3, 4}
        THEN Return([s4 EXCEPT !.ghost.nFailedLoads = @ + 1], "CreateGLTexture", tag, FALSE)
        ELSE Return([s4 EXCEPT !.ghost.okLoads = Append(@, tag)], "CreateGLTexture", tag, TRUE)

\* the part of CreateGLTexture after a successful stbi_load
CreateGLTextureImage(s, tag, colorChannels) ==
    LET textureID == s.gl.generated + 1
        s1 == glBindTexture(glGenTextures(s), textureID)
        s2 == glTexParameteri(s1, "wrapS", "GL_REPEAT")
        s3 == glTexParameteri(s2, "wrapT", "GL_REPEAT")
        s4 == glTexParameteri(s3, "minFilter", "GL_LINEAR")
        s5 == glTexParameteri(s4, "magFilter", "GL_LINEAR")
        s6 == IF colorChannels = 3 THEN glTexImage2D(s5, "GL_RGB8") ELSE glTexImage2D(s5, "GL_RGBA8")
        s7 == glBindTexture(stbi_image_free(glGenerateMipmap(s6)), 0)
        s8 == RegisterTexture(s7, textureID, tag)
    IN  IF colorChannels \notin {3, 4}
        THEN Return([s5 EXCEPT !.ghost.nFailedLoads = @ + 1], "CreateGLTexture", tag, FALSE)
        ELSE Return([s8 EXCEPT !.ghost.okLoads = Append(@, tag)], "CreateGLTexture", tag, TRUE)

\* bool CreateGLTexture(filename, tag); colorChannels is what stbi_load finds in the file
CreateGLTexture(s, filename, tag, colorChannels) ==
    LET s0 == Phase(Emit(s, "CreateGLTexture", tag, filename), "CreateGLTexture")
    IN  IF colorChannels # 0
        THEN CreateGLTextureImage(stbi_load(s0), tag, colorChannels)
        ELSE Return([s0 EXCEPT !.ghost.nFailedLoads = @ + 1], "CreateGLTexture", tag, FALSE)

\* the loop of BindGLTextures without its glActiveTexture call
RECURSIVE BindGLTexturesLoop_NoActiveTexture(_, _)
BindGLTexturesLoop_NoActiveTexture(s, i) ==
    IF i < s.m_loadedTextures
    THEN BindGLTexturesLoop_NoActiveTexture(glBindTexture(s, s.m_textureIDs[i].ID), i + 1)
    ELSE s

RECURSIVE BindGLTexturesLoop(_, _)
BindGLTexturesLoop(s, i) ==
    IF i < s.m_loadedTextures
    THEN BindGLTexturesLoop(glBindTexture(glActiveTexture(s, i), s.m_textureIDs[i].ID), i + 1)
    ELSE s

\* void BindGLTextures()
BindGLTextures(s) ==
    LET s0 == Phase(Emit(s, "BindGLTextures", "", <<>>), "BindGLTextures")
        s1 == [s0 EXCEPT !.ghost.nBind = @ + 1]
    IN  Return(BindGLTexturesLoop(s1, 0), "BindGLTextures", "", 0)

RECURSIVE DestroyGLTexturesLoop(_, _)
DestroyGLTexturesLoop(s, i) ==
    IF i < s.m_loadedTextures
    THEN DestroyGLTexturesLoop(
             [glGenTextures(s) EXCEPT !.m_textureIDs[i].ID = s.gl.generated + 1], i + 1)
    ELSE s

\* void DestroyGLTextures()
DestroyGLTextures(s) ==
    Return(DestroyGLTexturesLoop(Emit(s, "DestroyGLTextures", "", <<>>), 0),
           "DestroyGLTextures", "", 0)

RECURSIVE FindTextureIDLoop(_, _, _)
FindTextureIDLoop(s, tag, index) ==
    IF index < s.m_loadedTextures
    THEN IF s.m_textureIDs[index].tag = tag
         THEN s.m_textureIDs[index].ID
         ELSE FindTextureIDLoop(s, tag, index + 1)
    ELSE -1

\* FindTextureID scanning on after a match: the last entry with the tag wins
RECURSIVE FindTextureID_LastMatchLoop(_, _, _, _)
FindTextureID_LastMatchLoop(s, tag, index, textureID) ==
    IF index < s.m_loadedTextures
    THEN FindTextureID_LastMatchLoop(s, tag, index + 1,
             IF s.m_textureIDs[index].tag = tag THEN s.m_textureIDs[index].ID ELSE textureID)
    ELSE textureID

FindTextureID_LastMatch(s, tag) == FindTextureID_LastMatchLoop(s, tag, 0, -1)

\* int FindTextureID(tag)
FindTextureID(s, tag) == FindTextureIDLoop(s, tag, 0)

RECURSIVE FindTextureSlotLoop(_, _, _)
FindTextureSlotLoop(s, tag, index) ==
    IF index < s.m_loadedTextures
    THEN IF s.m_textureIDs[index].tag = tag
         THEN index
         ELSE FindTextureSlotLoop(s, tag, index + 1)
    ELSE -1

\* FindTextureSlot returning the entry's ID in place of its index
FindTextureSlot_ReturnsID(s, tag) == FindTextureID(s, tag)

\* int FindTextureSlot(tag)
FindTextureSlot(s, tag) == FindTextureSlotLoop(s, tag, 0)

-----------------------------------------------------------------------------
(* The material registry *)

\* the loop of FindMaterial without bFound in its condition: it scans on after a match
RECURSIVE FindMaterialLoop_LastMatch(_, _, _, _)
FindMaterialLoop_LastMatch(s, tag, material, index) ==
    IF index < Len(s.m_objectMaterials)
    THEN FindMaterialLoop_LastMatch(s, tag,
             IF s.m_objectMaterials[index + 1].tag = tag
             THEN [material EXCEPT !.diffuseColor = s.m_objectMaterials[index + 1].diffuseColor,
                                   !.specularColor = s.m_objectMaterials[index + 1].specularColor,
                                   !.shininess = s.m_objectMaterials[index + 1].shininess]
             ELSE material,
             index + 1)
    ELSE material

RECURSIVE FindMaterialLoop(_, _, _, _)
FindMaterialLoop(s, tag, material, index) ==
    IF index < Len(s.m_objectMaterials)
    THEN IF s.m_objectMaterials[index + 1].tag = tag
         THEN [material EXCEPT !.diffuseColor = s.m_objectMaterials[index + 1].diffuseColor,
                               !.specularColor = s.m_objectMaterials[index + 1].specularColor,
                               !.shininess = s.m_objectMaterials[index + 1].shininess]
         ELSE FindMaterialLoop(s, tag, material, index + 1)
    ELSE material

\* bool FindMaterial(tag, OBJECT_MATERIAL& material): the return value and the
\* caller's material after the call
FindMaterial(s, tag, material) ==
    IF Len(s.m_objectMaterials) = 0
    THEN [result |-> FALSE, material |-> material]
    ELSE [result |-> TRUE, material |-> FindMaterialLoop(s, tag, material, 0)]

-----------------------------------------------------------------------------
(* The shader setters *)

g_ModelName == "model"
g_ColorValueName == "objectColor"
g_TextureValueName == "objectTexture"
g_UseTextureName == "bUseTexture"
g_UseLightingName == "bUseLighting"

\* m_pShaderManager->setXValue(name, value): dereferences m_pShaderManager
ShaderSet(s, setter, name, value) ==
    IF s.m_pShaderManager = NULL
    THEN [s EXCEPT !.fault = "null dereference"]
    ELSE [Emit(s, setter, name, value) EXCEPT !.uniforms = (name :> value) @@ @]

\* 1.0f: a float is an integer number of hundredths
One == 100

\* glm::radians(degrees): hundredths of a degree to hundredths of a radian
glm_radians(degrees) == (degrees * 314) \div 18000

\* cos and sin of the multiples of pi/2 (in hundredths of a radian), in hundredths
Cosine == (0 :> 100) @@ (157 :> 0) @@ (314 :> -100) @@ (-157 :> 0)
Sine == (0 :> 0) @@ (157 :> 100) @@ (314 :> 0) @@ (-157 :> -100)

\* glm::translate(v), glm::scale(v) and glm::rotate(angle, axis) as 4x4 matrices,
\* M[row][column], that act on column vectors
glm_translate(v) ==
    <<<<One, 0, 0, v[1]>>, <<0, One, 0, v[2]>>, <<0, 0, One, v[3]>>, <<0, 0, 0, One>>>>

glm_scale(v) ==
    <<<<v[1], 0, 0, 0>>, <<0, v[2], 0, 0>>, <<0, 0, v[3], 0>>, <<0, 0, 0, One>>>>

glm_rotate(angle, axis) ==
    LET c == Cosine[angle]
        n == Sine[angle]
    IN  CASE axis = "X" ->
                 <<<<One, 0, 0, 0>>, <<0, c, -n, 0>>, <<0, n, c, 0>>, <<0, 0, 0, One>>>>
          [] axis = "Y" ->
                 <<<<c, 0, n, 0>>, <<0, One, 0, 0>>, <<-n, 0, c, 0>>, <<0, 0, 0, One>>>>
          [] axis = "Z" ->
                 <<<<c, -n, 0, 0>>, <<n, c, 0, 0>>, <<0, 0, One, 0>>, <<0, 0, 0, One>>>>

\* glm::mat4 operator*
MatMul(A, B) ==
    [i \in 1..4 |-> [j \in 1..4 |->
        (A[i][1] * B[1][j] + A[i][2] * B[2][j] + A[i][3] * B[3][j] + A[i][4] * B[4][j])
            \div One]]

\* the matrix of one factor of the model matrix
MatrixOf(factor) ==
    CASE factor.m = "translate" -> glm_translate(factor.v)
      [] factor.m = "rotateX" -> glm_rotate(glm_radians(factor.v[1]), "X")
      [] factor.m = "rotateY" -> glm_rotate(glm_radians(factor.v[1]), "Y")
      [] factor.m = "rotateZ" -> glm_rotate(glm_radians(factor.v[1]), "Z")
      [] factor.m = "scale" -> glm_scale(factor.v)

\* the value of a product of factors, multiplied from left to right
RECURSIVE MatrixProduct(_)
MatrixProduct(factors) ==
    IF Len(factors) = 1
    THEN MatrixOf(factors[1])
    ELSE MatMul(MatrixProduct(SubSeq(factors, 1, Len(factors) - 1)),
                MatrixOf(factors[Len(factors)]))

\* the model matrix multiplied the other way round: scale * rotationX * rotationY *
\* rotationZ * translation
ModelMatrix_Reversed(scaleXYZ, XrotationDegrees, YrotationDegrees, ZrotationDegrees, positionXYZ) ==
    <<[m |-> "scale", v |-> scaleXYZ],
      [m |-> "rotateX", v |-> <<XrotationDegrees>>],
      [m |-> "rotateY", v |-> <<YrotationDegrees>>],
      [m |-> "rotateZ", v |-> <<ZrotationDegrees>>],
      [m |-> "translate", v |-> positionXYZ]>>

\* translation * rotationZ * rotationY * rotationX * scale, as the product's
\* factors from left to right; the angles are those handed to glm::radians
ModelMatrix(scaleXYZ, XrotationDegrees, YrotationDegrees, ZrotationDegrees, positionXYZ) ==
    <<[m |-> "translate", v |-> positionXYZ],
      [m |-> "rotateZ", v |-> <<ZrotationDegrees>>],
      [m |-> "rotateY", v |-> <<YrotationDegrees>>],
      [m |-> "rotateX", v |-> <<XrotationDegrees>>],
      [m |-> "scale", v |-> scaleXYZ]>>

\* void SetTransformations(scaleXYZ, Xrot, Yrot, Zrot, positionXYZ); a holds the nine numbers
SetTransformations(s, a) ==
    LET s0 == Emit(s, "SetTransformations", "", a)
        modelView == ModelMatrix(<<a[1], a[2], a[3]>>, a[4], a[5], a[6], <<a[7], a[8], a[9]>>)
    IN  Return(IF s0.m_pShaderManager # NULL
               THEN ShaderSet(s0, "setMat4Value", g_ModelName, modelView)
               ELSE s0,
               "SetTransformations", "", 0)

\* SetShaderColor without the write of bUseTexture
SetShaderColor_KeepsFlag(s, currentColor) ==
    LET s0 == [Emit(s, "SetShaderColor", "", currentColor) EXCEPT !.ghost.lastSelection = "color"]
    IN  Return(IF s0.m_pShaderManager # NULL
               THEN ShaderSet(s0, "setVec4Value", "objectColor", currentColor)
               ELSE s0,
               "SetShaderColor", "", 0)

\* void SetShaderColor(red, green, blue, alpha)
SetShaderColor(s, currentColor) ==
    LET s0 == [Emit(s, "SetShaderColor", "", currentColor) EXCEPT !.ghost.lastSelection = "color"]
        s1 == ShaderSet(s0, "setIntValue", g_UseTextureName, 0)
        s2 == Run(s1, ShaderSet(s1, "setVec4Value", g_ColorValueName, currentColor))
    IN  Return(IF s0.m_pShaderManager # NULL THEN s2 ELSE s0, "SetShaderColor", "", 0)

\* SetShaderTexture that writes nothing for a tag without a slot
SetShaderTexture_SkipsUnknown(s, textureTag) ==
    LET s0 == [Emit(s, "SetShaderTexture", textureTag, <<>>) EXCEPT !.ghost.lastSelection = "texture"]
        s1 == ShaderSet(s0, "setIntValue", "bUseTexture", 1)
        s2 == Run(s1, ShaderSet(s1, "setSampler2DValue", "objectTexture",
                                FindTextureSlot(s1, textureTag)))
    IN  Return(IF s0.m_pShaderManager # NULL /\ FindTextureSlot(s0, textureTag) # -1
               THEN s2 ELSE s0,
               "SetShaderTexture", textureTag, 0)

\* void SetShaderTexture(textureTag)
SetShaderTexture(s, textureTag) ==
    LET s0 == [Emit(s, "SetShaderTexture", textureTag, <<>>) EXCEPT !.ghost.lastSelection = "texture"]
        s1 == ShaderSet(s0, "setIntValue", g_UseTextureName, 1)
        textureID == FindTextureSlot(s1, textureTag)
        s2 == Run(s1, ShaderSet(s1, "setSampler2DValue", g_TextureValueName, textureID))
    IN  Return(IF s0.m_pShaderManager # NULL THEN s2 ELSE s0, "SetShaderTexture", textureTag, 0)

\* void SetTextureUVScale(u, v)
SetTextureUVScale(s, u, v) ==
    LET s0 == Emit(s, "SetTextureUVScale", "", <<u, v>>)
    IN  Return(IF s0.m_pShaderManager # NULL
               THEN ShaderSet(s0, "setVec2Value", "UVscale", <<u, v>>)
               ELSE s0,
               "SetTextureUVScale", "", 0)

\* SetShaderMaterial writing its local `material` without the FindMaterial call
SetShaderMaterial_Unassigned(s, materialTag, uninit) ==
    LET s0 == Emit(s, "SetShaderMaterial", materialTag, <<>>)
        s1 == ShaderSet(s0, "setVec3Value", "material.diffuseColor", uninit.diffuseColor)
        s2 == Run(s1, ShaderSet(s1, "setVec3Value", "material.specularColor", uninit.specularColor))
        s3 == Run(s2, ShaderSet(s2, "setFloatValue", "material.shininess", uninit.shininess))
    IN  Return(IF Len(s0.m_objectMaterials) > 0 THEN s3 ELSE s0,
               "SetShaderMaterial", materialTag, 0)

\* void SetShaderMaterial(materialTag); uninit is what the local `material` holds
\* before FindMaterial fills it
SetShaderMaterial(s, materialTag, uninit) ==
    LET s0 == Emit(s, "SetShaderMaterial", materialTag, <<>>)
        found == FindMaterial(s0, materialTag, uninit)
        material == found.material
        s1 == ShaderSet(s0, "setVec3Value", "material.diffuseColor", material.diffuseColor)
        s2 == Run(s1, ShaderSet(s1, "setVec3Value", "material.specularColor", material.specularColor))
        s3 == Run(s2, ShaderSet(s2, "setFloatValue", "material.shininess", material.shininess))
    IN  Return(IF Len(s0.m_objectMaterials) > 0 /\ found.result = TRUE THEN s3 ELSE s0,
               "SetShaderMaterial", materialTag, 0)

-----------------------------------------------------------------------------
(* The scene: textures, materials, lights, meshes *)

\* the CreateGLTexture calls of LoadSceneTextures, in order
SceneTextures == <<
    [filename |-> "textures/black_marble.jpg", tag |-> "box"],  \* line 380
    [filename |-> "textures/cement.jpg", tag |-> "potBody"],  \* line 383
    [filename |-> "textures/cement.jpg", tag |-> "potRim"],  \* line 386
    [filename |-> "textures/cement.jpg", tag |-> "potSphereBottom"],  \* line 389
    [filename |-> "textures/dirt.jpg", tag |-> "potDirt"],  \* line 392
    [filename |-> "textures/bricks_white_seamless.jpg", tag |-> "backsplash"],  \* line 395
    [filename |-> "textures/marble_light_seamless.jpg", tag |-> "counter"],  \* line 398
    [filename |-> "textures/green_texture.jpg", tag |-> "stem"],  \* line 401
    [filename |-> "textures/green_texture.jpg", tag |-> "leaf"],  \* line 404
    [filename |-> "textures/metal.jpg", tag |-> "metal"],  \* line 407
    [filename |-> "textures/plastic_dark_seamless.png", tag |-> "plastic"]  \* line 410
    >>

RECURSIVE LoadSceneTexturesLoop(_, _, _)
LoadSceneTexturesLoop(s, decoded, i) ==
    IF i > Len(SceneTextures) \/ s.fault # NoFault
    THEN s
    ELSE LoadSceneTexturesLoop(
             CreateGLTexture(s, SceneTextures[i].filename, SceneTextures[i].tag, decoded[i]),
             decoded, i + 1)

\* LoadSceneTextures binding the textures before it loads them
LoadSceneTextures_BindFirst(s, decoded) ==
    LET s1 == BindGLTextures(Emit(s, "LoadSceneTextures", "", <<>>))
    IN  Return(LoadSceneTexturesLoop(s1, decoded, 1), "LoadSceneTextures", "", 0)

\* void LoadSceneTextures(); decoded[i] is what stbi_load finds for the i-th call
LoadSceneTextures(s, decoded) ==
    LET s1 == LoadSceneTexturesLoop(Emit(s, "LoadSceneTextures", "", <<>>), decoded, 1)
    IN  Return(Run(s1, BindGLTextures(s1)), "LoadSceneTextures", "", 0)

\* the materials DefineObjectMaterials pushes back, in order
ObjectMaterials == <<
    [diffuseColor |-> <<50, 50, 50>>, specularColor |-> <<40, 40, 40>>, shininess |-> 50, tag |-> "cement"],  \* line 433
    [diffuseColor |-> <<30, 20, 10>>, specularColor |-> <<40, 50, 60>>, shininess |-> 2500, tag |-> "tile"],  \* line 442
    [diffuseColor |-> <<60, 60, 60>>, specularColor |-> <<30, 40, 40>>, shininess |-> 2800, tag |-> "marble"],  \* line 451
    [diffuseColor |-> <<50, 50, 50>>, specularColor |-> <<10, 10, 10>>, shininess |-> 30, tag |-> "dirt"],  \* line 460
    [diffuseColor |-> <<50, 40, 40>>, specularColor |-> <<40, 40, 40>>, shininess |-> 2400, tag |-> "metal"],  \* line 469
    [diffuseColor |-> <<90, 90, 90>>, specularColor |-> <<100, 100, 100>>, shininess |-> 9500, tag |-> "glass"],  \* line 478
    [diffuseColor |-> <<90, 90, 90>>, specularColor |-> <<30, 30, 30>>, shininess |-> 2000, tag |-> "plastic"]  \* line 486
    >>

\* DefineObjectMaterials without its last push_back (the plastic material)
DefineObjectMaterials_WithoutPlastic(s) ==
    Return([Emit(s, "DefineObjectMaterials", "", <<>>)
               EXCEPT !.m_objectMaterials = @ \o SubSeq(ObjectMaterials, 1, Len(ObjectMaterials) - 1)],
           "DefineObjectMaterials", "", 0)

\* void DefineObjectMaterials()
DefineObjectMaterials(s) ==
    Return([Emit(s, "DefineObjectMaterials", "", <<>>)
               EXCEPT !.m_objectMaterials = @ \o ObjectMaterials],
           "DefineObjectMaterials", "", 0)

\* the uniform writes of SetupSceneLights, in order: <<setter, name, value>>
SceneLights == <<
    <<"setBoolValue", g_UseLightingName, 1>>,  \* line 501
    <<"setVec3Value", "directionalLight.direction", <<100, 100, 100>>>>,  \* line 504
    <<"setVec3Value", "directionalLight.ambient", <<52, 56, 50>>>>,  \* line 505
    <<"setVec3Value", "directionalLight.diffuse", <<60, 60, 60>>>>,  \* line 506
    <<"setVec3Value", "directionalLight.specular", <<0, 0, 0>>>>,  \* line 507
    <<"setBoolValue", "directionalLight.bActive", 1>>,  \* line 508
    <<"setVec3Value", "pointLights[0].position", <<-400, 800, 0>>>>,  \* line 511
    <<"setVec3Value", "pointLights[0].ambient", <<5, 5, 5>>>>,  \* line 512
    <<"setVec3Value", "pointLights[0].diffuse", <<30, 30, 30>>>>,  \* line 513
    <<"setVec3Value", "pointLights[0].specular", <<10, 10, 10>>>>,  \* line 514
    <<"setBoolValue", "pointLights[0].bActive", 1>>,  \* line 515
    <<"setVec3Value", "pointLights[1].position", <<400, 800, 0>>>>,  \* line 518
    <<"setVec3Value", "pointLights[1].ambient", <<5, 5, 5>>>>,  \* line 519
    <<"setVec3Value", "pointLights[1].diffuse", <<30, 30, 30>>>>,  \* line 520
    <<"setVec3Value", "pointLights[1].specular", <<10, 10, 10>>>>,  \* line 521
    <<"setBoolValue", "pointLights[1].bActive", 1>>,  \* line 522
    <<"setVec3Value", "pointLights[2].position", <<380, 550, 400>>>>,  \* line 525
    <<"setVec3Value", "pointLights[2].ambient", <<5, 5, 5>>>>,  \* line 526
    <<"setVec3Value", "pointLights[2].diffuse", <<20, 20, 20>>>>,  \* line 527
    <<"setVec3Value", "pointLights[2].specular", <<80, 80, 80>>>>,  \* line 528
    <<"setBoolValue", "pointLights[2].bActive", 1>>  \* line 529
    >>

RECURSIVE SetupSceneLightsLoop(_, _)
SetupSceneLightsLoop(s, i) ==
    IF i > Len(SceneLights) \/ s.fault # NoFault
    THEN s
    ELSE SetupSceneLightsLoop(
             ShaderSet(s, SceneLights[i][1], SceneLights[i][2], SceneLights[i][3]), i + 1)

\* void SetupSceneLights()
SetupSceneLights(s) ==
    Return(SetupSceneLightsLoop(Emit(s, "SetupSceneLights", "", <<>>), 1),
           "SetupSceneLights", "", 0)

\* m_basicMeshes->Load<kind>Mesh()
LoadMesh(s, kind) ==
    [Emit(s, "Load" \o kind \o "Mesh", "", <<>>) EXCEPT !.m_basicMeshes[kind] = @ + 1]

\* m_basicMeshes->Draw...Mesh(...)
DrawMesh(s, call, name, a) ==
    [Phase(Emit(s, call, name, a), "Draw") EXCEPT !.ghost.nDraw = @ + 1]

\* PrepareScene without its LoadSphereMesh call
SceneMeshes_NoSphere == <<"Plane", "Cylinder", "Torus", "Box", "TaperedCylinder">>

\* the Load*Mesh calls of PrepareScene, in order
SceneMeshes == <<"Plane", "Sphere", "Cylinder", "Torus", "Box", "TaperedCylinder">>

RECURSIVE LoadMeshesLoop(_, _)
LoadMeshesLoop(s, i) ==
    IF i > Len(SceneMeshes) \/ s.fault # NoFault
    THEN s
    ELSE LoadMeshesLoop(LoadMesh(s, SceneMeshes[i]), i + 1)

\* void PrepareScene()
PrepareScene(s, decoded) ==
    LET s0 == [Emit(s, "PrepareScene", "", <<>>) EXCEPT !.ghost.nPrepares = @ + 1]
        s1 == LoadSceneTextures(s0, decoded)
        s2 == Run(s1, DefineObjectMaterials(s1))
        s3 == Run(s2, SetupSceneLights(s2))
        s4 == Run(s3, LoadMeshesLoop(s3, 1))
    IN  Run(s4, Return(s4, "PrepareScene", "", 0))

\* the statements of RenderScene that call a method, in order
RenderSceneScript == <<
    [op |-> "SetTransformations", name |-> "", a |-> <<2000, 100, 1000, 0, 0, 0, 0, 0, 0>>],  \* line 592
    [op |-> "SetShaderTexture", name |-> "counter", a |-> <<>>],  \* line 600
    [op |-> "SetShaderMaterial", name |-> "marble", a |-> <<>>],  \* line 601
    [op |-> "DrawPlaneMesh", name |-> "", a |-> <<>>],  \* line 603
    [op |-> "SetTransformations", name |-> "", a |-> <<2000, 100, 1000, 9000, 0, 0, 0, 1000, -1000>>],  \* line 617
    [op |-> "SetShaderTexture", name |-> "backsplash", a |-> <<>>],  \* line 625
    [op |-> "SetShaderMaterial", name |-> "tile", a |-> <<>>],  \* line 626
    [op |-> "DrawPlaneMesh", name |-> "", a |-> <<>>],  \* line 628
    [op |-> "SetTransformations", name |-> "", a |-> <<1500, 100, 900, 0, 0, 0, 300, 100, -500>>],  \* line 644
    [op |-> "SetShaderTexture", name |-> "box", a |-> <<>>],  \* line 653
    [op |-> "SetShaderMaterial", name |-> "marble", a |-> <<>>],  \* line 654
    [op |-> "DrawBoxMesh", name |-> "", a |-> <<>>],  \* line 656
    [op |-> "SetTransformations", name |-> "", a |-> <<300, 200, 300, 0, 0, 0, 600, 300, -400>>],  \* line 671
    [op |-> "SetShaderTexture", name |-> "potSphereBottom", a |-> <<>>],  \* line 679
    [op |-> "SetShaderMaterial", name |-> "cement", a |-> <<>>],  \* line 680
    [op |-> "DrawSphereMesh", name |-> "", a |-> <<>>],  \* line 682
    [op |-> "SetTransformations", name |-> "", a |-> <<300, 400, 300, 0, 0, 0, 600, 300, -400>>],  \* line 697
    [op |-> "SetShaderTexture", name |-> "potDirt", a |-> <<>>],  \* line 705
    [op |-> "SetShaderMaterial", name |-> "dirt", a |-> <<>>],  \* line 706
    [op |-> "DrawCylinderMesh", name |-> "", a |-> <<1, 0, 0>>],  \* line 707
    [op |-> "SetShaderTexture", name |-> "potBody", a |-> <<>>],  \* line 709
    [op |-> "SetShaderMaterial", name |-> "cement", a |-> <<>>],  \* line 710
    [op |-> "DrawCylinderMesh", name |-> "", a |-> <<0, 1, 1>>],  \* line 712
    [op |-> "SetTransformations", name |-> "", a |-> <<250, 260, 200, 9000, 0, 0, 600, 700, -400>>],  \* line 728
    [op |-> "SetShaderTexture", name |-> "potRim", a |-> <<>>],  \* line 737
    [op |-> "SetShaderMaterial", name |-> "cement", a |-> <<>>],  \* line 738
    [op |-> "DrawTorusMesh", name |-> "", a |-> <<>>],  \* line 740
    [op |-> "SetTransformations", name |-> "", a |-> <<10, 800, 10, 0, 0, 0, 600, 200, -400>>],  \* line 755
    [op |-> "SetShaderTexture", name |-> "stem", a |-> <<>>],  \* line 762
    [op |-> "DrawCylinderMesh", name |-> "", a |-> <<>>],  \* line 765
    [op |-> "SetTransformations", name |-> "", a |-> <<10, 800, 10, 1000, 0, 0, 600, 200, -400>>],  \* line 782
    [op |-> "SetShaderTexture", name |-> "stem", a |-> <<>>],  \* line 789
    [op |-> "DrawCylinderMesh", name |-> "", a |-> <<>>],  \* line 792
    [op |-> "SetTransformations", name |-> "", a |-> <<10, 800, 10, 1000, 0, 0, 650, 200, -410>>],  \* line 809
    [op |-> "SetShaderTexture", name |-> "stem", a |-> <<>>],  \* line 816
    [op |-> "DrawCylinderMesh", name |-> "", a |-> <<>>],  \* line 819
    [op |-> "SetTransformations", name |-> "", a |-> <<10, 900, 10, 1000, 0, 0, 580, 200, -370>>],  \* line 836
    [op |-> "SetShaderTexture", name |-> "stem", a |-> <<>>],  \* line 844
    [op |-> "DrawCylinderMesh", name |-> "", a |-> <<>>],  \* line 847
    [op |-> "SetTransformations", name |-> "", a |-> <<10, 800, 10, 1000, 0, 0, 530, 200, -370>>],  \* line 863
    [op |-> "SetShaderTexture", name |-> "stem", a |-> <<>>],  \* line 871
    [op |-> "DrawCylinderMesh", name |-> "", a |-> <<>>],  \* line 874
    [op |-> "SetTransformations", name |-> "", a |-> <<30, 5, 10, 9000, 0, 0, 580, 780, -400>>],  \* line 890
    [op |-> "SetShaderTexture", name |-> "leaf", a |-> <<>>],  \* line 898
    [op |-> "DrawHalfSphereMesh", name |-> "", a |-> <<>>],  \* line 901
    [op |-> "SetTransformations", name |-> "", a |-> <<30, 5, 10, 9000, 0, 0, 575, 910, -400>>],  \* line 918
    [op |-> "SetShaderTexture", name |-> "leaf", a |-> <<>>],  \* line 925
    [op |-> "DrawHalfSphereMesh", name |-> "", a |-> <<>>],  \* line 928
    [op |-> "SetTransformations", name |-> "", a |-> <<25, 5, 10, 9000, 0, 0, 580, 830, -400>>],  \* line 944
    [op |-> "SetShaderTexture", name |-> "leaf", a |-> <<>>],  \* line 951
    [op |-> "DrawHalfSphereMesh", name |-> "", a |-> <<>>],  \* line 954
    [op |-> "SetTransformations", name |-> "", a |-> <<30, 5, 10, 9000, 0, 0, 580, 990, -400>>],  \* line 970
    [op |-> "SetShaderTexture", name |-> "leaf", a |-> <<>>],  \* line 978
    [op |-> "DrawHalfSphereMesh", name |-> "", a |-> <<>>],  \* line 981
    [op |-> "SetTransformations", name |-> "", a |-> <<25, 5, 10, 9000, 100, 0, 620, 980, -400>>],  \* line 997
    [op |-> "SetShaderTexture", name |-> "leaf", a |-> <<>>],  \* line 1005
    [op |-> "DrawHalfSphereMesh", name |-> "", a |-> <<>>],  \* line 1008
    [op |-> "SetTransformations", name |-> "", a |-> <<30, 5, 10, 9000, 1000, 400, 625, 810, -400>>],  \* line 1023
    [op |-> "SetShaderTexture", name |-> "leaf", a |-> <<>>],  \* line 1032
    [op |-> "DrawHalfSphereMesh", name |-> "", a |-> <<>>],  \* line 1035
    [op |-> "SetTransformations", name |-> "", a |-> <<25, 10, 10, 9000, 1000, 400, 580, 890, -400>>],  \* line 1051
    [op |-> "SetShaderTexture", name |-> "leaf", a |-> <<>>],  \* line 1060
    [op |-> "DrawHalfSphereMesh", name |-> "", a |-> <<>>],  \* line 1063
    [op |-> "SetTransformations", name |-> "", a |-> <<20, 5, 10, 9000, 0, 400, 625, 850, -400>>],  \* line 1078
    [op |-> "SetShaderTexture", name |-> "leaf", a |-> <<>>],  \* line 1087
    [op |-> "DrawHalfSphereMesh", name |-> "", a |-> <<>>],  \* line 1090
    [op |-> "SetTransformations", name |-> "", a |-> <<300, 300, 300, 0, 0, 0, 100, 300, -307>>],  \* line 1105
    [op |-> "SetShaderTexture", name |-> "plastic", a |-> <<>>],  \* line 1113
    [op |-> "SetShaderMaterial", name |-> "plastic", a |-> <<>>],  \* line 1114
    [op |-> "DrawBoxMeshSide", name |-> "back", a |-> <<>>],  \* line 1115
    [op |-> "SetShaderTexture", name |-> "plastic", a |-> <<>>],  \* line 1117
    [op |-> "SetShaderMaterial", name |-> "plastic", a |-> <<>>],  \* line 1118
    [op |-> "DrawBoxMeshSide", name |-> "top", a |-> <<>>],  \* line 1119
    [op |-> "SetShaderTexture", name |-> "plastic", a |-> <<>>],  \* line 1121
    [op |-> "SetShaderMaterial", name |-> "plastic", a |-> <<>>],  \* line 1122
    [op |-> "DrawBoxMeshSide", name |-> "bottom", a |-> <<>>],  \* line 1123
    [op |-> "SetShaderTexture", name |-> "plastic", a |-> <<>>],  \* line 1125
    [op |-> "SetShaderMaterial", name |-> "plastic", a |-> <<>>],  \* line 1126
    [op |-> "DrawBoxMeshSide", name |-> "left", a |-> <<>>],  \* line 1127
    [op |-> "SetShaderTexture", name |-> "plastic", a |-> <<>>],  \* line 1129
    [op |-> "SetShaderMaterial", name |-> "plastic", a |-> <<>>],  \* line 1130
    [op |-> "DrawBoxMeshSide", name |-> "right", a |-> <<>>],  \* line 1131
    [op |-> "SetTransformations", name |-> "", a |-> <<300, 300, 300, 0, 0, 0, 100, 300, -360>>],  \* line 1147
    [op |-> "SetShaderColor", name |-> "", a |-> <<100, 100, 100, 100>>],  \* line 1154
    [op |-> "SetShaderMaterial", name |-> "plastic", a |-> <<>>],  \* line 1155
    [op |-> "DrawBoxMeshSide", name |-> "front", a |-> <<>>],  \* line 1156
    [op |-> "SetShaderTexture", name |-> "plastic", a |-> <<>>],  \* line 1158
    [op |-> "SetShaderMaterial", name |-> "plastic", a |-> <<>>],  \* line 1159
    [op |-> "DrawBoxMesh", name |-> "", a |-> <<>>],  \* line 1161
    [op |-> "SetTransformations", name |-> "", a |-> <<20, 10, 20, 9000, 0, 0, 100, 300, -200>>],  \* line 1176
    [op |-> "SetShaderTexture", name |-> "plastic", a |-> <<>>],  \* line 1183
    [op |-> "DrawHalfSphereMesh", name |-> "", a |-> <<>>],  \* line 1184
    [op |-> "SetTransformations", name |-> "", a |-> <<5, 120, 5, 0, 0, 0, 100, 310, -200>>],  \* line 1199
    [op |-> "SetShaderTexture", name |-> "plastic", a |-> <<>>],  \* line 1206
    [op |-> "DrawCylinderMesh", name |-> "", a |-> <<>>],  \* line 1207
    [op |-> "SetTransformations", name |-> "", a |-> <<5, 110, 5, 9000, 9000, 0, 100, 300, -200>>],  \* line 1223
    [op |-> "SetShaderTexture", name |-> "plastic", a |-> <<>>],  \* line 1230
    [op |-> "DrawCylinderMesh", name |-> "", a |-> <<>>],  \* line 1231
    [op |-> "SetTransformations", name |-> "", a |-> <<50, 100, 50, 0, 0, 0, 870, 150, -150>>],  \* line 1246
    [op |-> "SetShaderColor", name |-> "", a |-> <<100, 100, 100, 30>>],  \* line 1253
    [op |-> "SetShaderMaterial", name |-> "glass", a |-> <<>>],  \* line 1254
    [op |-> "DrawCylinderMesh", name |-> "", a |-> <<>>],  \* line 1255
    [op |-> "SetTransformations", name |-> "", a |-> <<50, 50, 50, 0, 0, 0, 870, 250, -150>>],  \* line 1271
    [op |-> "SetShaderColor", name |-> "", a |-> <<100, 100, 100, 30>>],  \* line 1278
    [op |-> "SetShaderMaterial", name |-> "glass", a |-> <<>>],  \* line 1279
    [op |-> "DrawTaperedCylinderMesh", name |-> "", a |-> <<>>],  \* line 1280
    [op |-> "SetTransformations", name |-> "", a |-> <<30, 20, 20, 0, 0, 0, 870, 300, -150>>],  \* line 1296
    [op |-> "SetShaderTexture", name |-> "metal", a |-> <<>>],  \* line 1304
    [op |-> "SetShaderMaterial", name |-> "metal", a |-> <<>>],  \* line 1305
    [op |-> "DrawCylinderMesh", name |-> "", a |-> <<>>],  \* line 1306
    [op |-> "SetTransformations", name |-> "", a |-> <<30, 20, 20, 0, 0, 0, 870, 320, -150>>],  \* line 1322
    [op |-> "SetShaderTexture", name |-> "metal", a |-> <<>>],  \* line 1330
    [op |-> "SetShaderMaterial", name |-> "metal", a |-> <<>>],  \* line 1331
    [op |-> "DrawHalfSphereMesh", name |-> "", a |-> <<>>],  \* line 1332
    [op |-> "SetTransformations", name |-> "", a |-> <<50, 100, 50, 0, 0, 0, 990, 150, -150>>],  \* line 1348
    [op |-> "SetShaderColor", name |-> "", a |-> <<100, 100, 100, 30>>],  \* line 1355
    [op |-> "SetShaderMaterial", name |-> "glass", a |-> <<>>],  \* line 1356
    [op |-> "DrawCylinderMesh", name |-> "", a |-> <<>>],  \* line 1357
    [op |-> "SetTransformations", name |-> "", a |-> <<50, 50, 50, 0, 0, 0, 990, 250, -150>>],  \* line 1373
    [op |-> "SetShaderColor", name |-> "", a |-> <<100, 100, 100, 30>>],  \* line 1380
    [op |-> "SetShaderMaterial", name |-> "glass", a |-> <<>>],  \* line 1381
    [op |-> "DrawTaperedCylinderMesh", name |-> "", a |-> <<>>],  \* line 1382
    [op |-> "SetTransformations", name |-> "", a |-> <<30, 20, 20, 0, 0, 0, 990, 300, -150>>],  \* line 1398
    [op |-> "SetShaderTexture", name |-> "metal", a |-> <<>>],  \* line 1406
    [op |-> "SetShaderMaterial", name |-> "metal", a |-> <<>>],  \* line 1407
    [op |-> "DrawCylinderMesh", name |-> "", a |-> <<>>],  \* line 1408
    [op |-> "SetTransformations", name |-> "", a |-> <<30, 20, 20, 0, 0, 0, 990, 320, -150>>],  \* line 1424
    [op |-> "SetShaderTexture", name |-> "metal", a |-> <<>>],  \* line 1432
    [op |-> "SetShaderMaterial", name |-> "metal", a |-> <<>>],  \* line 1433
    [op |-> "DrawHalfSphereMesh", name |-> "", a |-> <<>>]  \* line 1434
    >>

\* RenderScene with its SetShaderColor calls left out
RenderStep_SkipColor(s, step, uninit) ==
    CASE step.op = "SetTransformations" -> SetTransformations(s, step.a)
      [] step.op = "SetShaderTexture" -> SetShaderTexture(s, step.name)
      [] step.op = "SetShaderColor" -> s
      [] step.op = "SetShaderMaterial" -> SetShaderMaterial(s, step.name, uninit)
      [] OTHER -> DrawMesh(s, step.op, step.name, step.a)

\* RenderScene with its SetTransformations calls left out
RenderStep_SkipTransform(s, step, uninit) ==
    CASE step.op = "SetTransformations" -> s
      [] step.op = "SetShaderTexture" -> SetShaderTexture(s, step.name)
      [] step.op = "SetShaderColor" -> SetShaderColor(s, step.a)
      [] step.op = "SetShaderMaterial" -> SetShaderMaterial(s, step.name, uninit)
      [] OTHER -> DrawMesh(s, step.op, step.name, step.a)

\* one statement of RenderScene
RenderStep(s, step, uninit) ==
    CASE step.op = "SetTransformations" -> SetTransformations(s, step.a)
      [] step.op = "SetShaderTexture" -> SetShaderTexture(s, step.name)
      [] step.op = "SetShaderColor" -> SetShaderColor(s, step.a)
      [] step.op = "SetShaderMaterial" -> SetShaderMaterial(s, step.name, uninit)
      [] OTHER -> DrawMesh(s, step.op, step.name, step.a)

RECURSIVE RenderSceneLoop(_, _, _)
RenderSceneLoop(s, uninit, i) ==
    IF i > Len(RenderSceneScript) \/ s.fault # NoFault
    THEN s
    ELSE RenderSceneLoop(RenderStep(s, RenderSceneScript[i], uninit), uninit, i + 1)

\* void RenderScene()
RenderScene(s, uninit) ==
    LET s0 == [Emit(s, "RenderScene", "", <<>>) EXCEPT !.ghost.nRenders = @ + 1]
        s1 == RenderSceneLoop(s0, uninit, 1)
    IN  Run(s1, Return(s1, "RenderScene", "", 0))

-----------------------------------------------------------------------------
(* Construction *)

\* The members the constructor does not assign, as SceneManager.h declares them:
\* the registry starts empty, as the 0-based registration order of the texture
\* registry requires.
MemberDefaults ==
    [m_loadedTextures |-> 0,
     m_textureIDs |-> [i \in 0..(TextureSlots - 1) |-> [ID |-> 0, tag |-> ""]]]

\* SceneManager(pShaderManager), on a fresh OpenGL context
Init ==
    /\ m_pShaderManager \in {NULL, "shader"}
    /\ m_loadedTextures = MemberDefaults.m_loadedTextures
    /\ m_textureIDs = MemberDefaults.m_textureIDs
    /\ m_objectMaterials = <<>>
    /\ m_basicMeshes = [k \in MeshKinds |-> 0]
    /\ gl = [generated |-> 0, active |-> 0,
             bound |-> [u \in 0..(TextureSlots - 1) |-> 0], tex |-> <<>>]
    /\ stbiLive = 0
    /\ uniforms = <<>>
    /\ fault = NoFault
    /\ ret = [op |-> "SceneManager", name |-> "", result |-> 0]
    /\ trace = <<>>
    /\ ghost = [order |-> <<>>, nBind |-> 0, okLoads |-> <<>>, nFailedLoads |-> 0,
                lastSelection |-> "none", nDraw |-> 0, nPrepares |-> 0, nRenders |-> 0,
                nCalls |-> 0]

\* the state a public call starts from: the trace holds that call's own calls
Fresh == [State EXCEPT !.trace = <<>>, !.ghost.nCalls = @ + 1]

-----------------------------------------------------------------------------
(* Spec: a driver that calls the public methods in any order *)

Callable == fault = NoFault /\ ghost.nCalls < MaxCalls

CallCreateGLTexture ==
    /\ Callable
    /\ \E tag \in Tags, colorChannels \in StbiResults :
           Becomes(CreateGLTexture(Fresh, "image", tag, colorChannels))

CallBindGLTextures ==
    /\ Callable
    /\ Becomes(BindGLTextures(Fresh))

CallDestroyGLTextures ==
    /\ Callable
    /\ Becomes(DestroyGLTextures(Fresh))

CallFindTextureID ==
    /\ Callable
    /\ \E tag \in Tags :
           Becomes(Return(Emit(Fresh, "FindTextureID", tag, <<>>),
                          "FindTextureID", tag, FindTextureID(Fresh, tag)))

CallFindTextureSlot ==
    /\ Callable
    /\ \E tag \in Tags :
           Becomes(Return(Emit(Fresh, "FindTextureSlot", tag, <<>>),
                          "FindTextureSlot", tag, FindTextureSlot(Fresh, tag)))

CallFindMaterial ==
    /\ Callable
    /\ \E tag \in {"glass", "wood"}, material \in Indeterminate :
           Becomes(Return(Emit(Fresh, "FindMaterial", tag, <<>>),
                          "FindMaterial", tag, FindMaterial(Fresh, tag, material)))

CallDefineObjectMaterials ==
    /\ Callable
    /\ Becomes(DefineObjectMaterials(Fresh))

CallSetShaderColor ==
    /\ Callable
    /\ Becomes(SetShaderColor(Fresh, <<100, 100, 100, 30>>))

CallSetShaderTexture ==
    /\ Callable
    /\ \E tag \in Tags : Becomes(SetShaderTexture(Fresh, tag))

Next ==
    \/ CallCreateGLTexture
    \/ CallBindGLTextures
    \/ CallDestroyGLTextures
    \/ CallFindTextureID
    \/ CallFindTextureSlot
    \/ CallFindMaterial
    \/ CallDefineObjectMaterials
    \/ CallSetShaderColor
    \/ CallSetShaderTexture

Spec == Init /\ [][Next]_vars

-----------------------------------------------------------------------------
(* SpecScene: the application's use: PrepareScene once, then RenderScene per frame *)

\* what stbi_load finds for the i-th texture of the scene when the file is intact
SceneChannels(i) == IF SceneTextures[i].tag = "plastic" THEN 4 ELSE 3

\* the decodings of the scene's texture files in which at most MaxFailures loads fail
\* (0: the file cannot be decoded, 2: a two-channel image)
SceneDecodings ==
    UNION {
        {[i \in 1..Len(SceneTextures) |-> IF i \in F THEN bad[i] ELSE SceneChannels(i)] :
            bad \in [F -> {0, 2}]} :
        F \in {G \in SUBSET (1..Len(SceneTextures)) : Cardinality(G) <= MaxFailures}}

ScenePrepare ==
    /\ fault = NoFault
    /\ ghost.nPrepares = 0
    /\ \E decoded \in SceneDecodings : Becomes(PrepareScene(Fresh, decoded))

SceneRender ==
    /\ fault = NoFault
    /\ ghost.nPrepares = 1
    /\ ghost.nRenders < MaxRenders
    /\ \E uninit \in Indeterminate : Becomes(RenderScene(Fresh, uninit))

NextScene == ScenePrepare \/ SceneRender

SpecScene == Init /\ [][NextScene]_vars

-----------------------------------------------------------------------------
(* SpecCapacity: a driver that only loads textures, each under a tag of its own *)

CapacityLoad ==
    /\ fault = NoFault
    /\ \E colorChannels \in {0, 2, 3} :
           /\ colorChannels = 3 \/ ghost.nFailedLoads < MaxCapFailures
           /\ Becomes(CreateGLTexture(Fresh, "image",
                                      "tag" \o ToString(ghost.nCalls), colorChannels))

NextCapacity == CapacityLoad

SpecCapacity == Init /\ [][NextCapacity]_vars

-----------------------------------------------------------------------------
(* SpecMaterial: materials are defined one push_back at a time, also several
   under one tag, and are then looked up and passed to the shader *)

MaterialTags == {"glass", "metal"}

\* the materials the driver defines: under each tag one of two sets of values
MaterialChoices ==
    {[diffuseColor |-> <<v, v, v>>, specularColor |-> <<v + 10, v + 10, v + 10>>,
      shininess |-> 10 * v, tag |-> tag] : v \in {20, 90}, tag \in MaterialTags}

\* m_objectMaterials.push_back(material)
MaterialDefine ==
    /\ fault = NoFault
    /\ ghost.nCalls = 0
    /\ Len(m_objectMaterials) < MaxMaterials
    /\ \E material \in MaterialChoices :
           Becomes([State EXCEPT !.m_objectMaterials = Append(@, material)])

MaterialFind ==
    /\ Callable
    /\ \E tag \in MaterialTags \cup {"wood"}, material \in Indeterminate :
           Becomes(Return(Emit(Fresh, "FindMaterial", tag, <<>>),
                          "FindMaterial", tag, FindMaterial(Fresh, tag, material)))

MaterialSet ==
    /\ Callable
    /\ \E tag \in MaterialTags \cup {"wood"}, uninit \in Indeterminate :
           Becomes(SetShaderMaterial(Fresh, tag, uninit))

NextMaterial == MaterialDefine \/ MaterialFind \/ MaterialSet

SpecMaterial == Init /\ [][NextMaterial]_vars

-----------------------------------------------------------------------------
(* SpecTransform: a driver that only sets transformations: scales with equal and
   with different factors, quarter turns about each axis, with and without a
   translation *)

TransformScales == {<<100, 100, 100>>, <<200, 100, 300>>}
TransformDegrees == {0, 9000, 18000, -9000}
TransformPositions == {<<0, 0, 0>>, <<100, 200, 300>>}

CallSetTransformations ==
    /\ Callable
    /\ \E scaleXYZ \in TransformScales, positionXYZ \in TransformPositions,
          X \in TransformDegrees, Y \in TransformDegrees, Z \in TransformDegrees :
           Becomes(SetTransformations(Fresh, scaleXYZ \o <<X, Y, Z>> \o positionXYZ))

NextTransform == CallSetTransformations

SpecTransform == Init /\ [][NextTransform]_vars

-----------------------------------------------------------------------------
(* SpecShader: a driver that calls the six methods that write shader uniforms,
   on registries with and without a texture and with and without materials *)

ShaderLoadTexture ==
    /\ Callable
    /\ Becomes(CreateGLTexture(Fresh, "image", "box", 3))

ShaderSetTransformations ==
    /\ Callable
    /\ Becomes(SetTransformations(Fresh, <<200, 100, 300, 9000, 0, -9000, 100, 200, 300>>))

ShaderSetTexture ==
    /\ Callable
    /\ \E tag \in {"box", "wood"} : Becomes(SetShaderTexture(Fresh, tag))

ShaderSetTextureUVScale ==
    /\ Callable
    /\ Becomes(SetTextureUVScale(Fresh, 200, 100))

ShaderSetMaterial ==
    /\ Callable
    /\ \E tag \in {"glass", "wood"}, uninit \in Indeterminate :
           Becomes(SetShaderMaterial(Fresh, tag, uninit))

ShaderSetupSceneLights ==
    /\ Callable
    /\ Becomes(SetupSceneLights(Fresh))

NextShader ==
    \/ ShaderLoadTexture
    \/ CallDefineObjectMaterials
    \/ ShaderSetTransformations
    \/ CallSetShaderColor
    \/ ShaderSetTexture
    \/ ShaderSetTextureUVScale
    \/ ShaderSetMaterial
    \/ ShaderSetupSceneLights

SpecShader == Init /\ [][NextShader]_vars

-----------------------------------------------------------------------------
(* Properties *)

Registered == 0..(m_loadedTextures - 1)

\* the entries of the registry that carry a tag
EntriesWith(tag) == {i \in Registered : m_textureIDs[i].tag = tag}

Least(S) == CHOOSE i \in S : \A j \in S : i <= j

Distinct(seq) == \A i, j \in 1..Len(seq) : i # j => seq[i] # seq[j]

\* C1: when the tags of the successful loads are pairwise distinct, FindTextureSlot
\* gives each of them its 0-based position among the successful loads, a value in
\* [0, m_loadedTextures).
C1_SlotIsRegistrationOrder ==
    Distinct(ghost.okLoads) =>
        \A i \in 1..Len(ghost.okLoads) :
            /\ FindTextureSlot(State, ghost.okLoads[i]) = i - 1
            /\ FindTextureSlot(State, ghost.okLoads[i]) \in Registered

\* two textures were loaded after a load that failed, and the second was looked up
C1_Witness ==
    /\ ghost.okLoads = <<"counter", "box">>
    /\ ghost.nFailedLoads = 1
    /\ FindTextureSlot(State, "box") = 1
    /\ FindTextureSlot(State, "counter") = 0

\* C2: a CreateGLTexture call on a file that cannot be decoded (0) or that has
\* neither 3 nor 4 channels returns false and leaves m_loadedTextures and every
\* entry of m_textureIDs as they were.
C2_FailedLoadKeepsRegistry ==
    [][\A tag \in Tags, colorChannels \in StbiResults \ {3, 4} :
           Callable /\ Becomes(CreateGLTexture(Fresh, "image", tag, colorChannels))
               => /\ ret'.op = "CreateGLTexture"
                  /\ ret'.result = FALSE
                  /\ UNCHANGED <<m_loadedTextures, m_textureIDs>>]_vars

\* a load failed on a registry that holds a texture, after a load of each failing kind
C2_Witness ==
    /\ ret.op = "CreateGLTexture"
    /\ ret.result = FALSE
    /\ m_loadedTextures = 1
    /\ ghost.nFailedLoads = 2
    /\ gl.generated = 2

\* C3: FindMaterial returns false whenever no defined material carries the tag,
\* also when other materials are defined.
C3_UnknownMaterialNotFound ==
    (ret.op = "FindMaterial"
        /\ \A i \in 1..Len(m_objectMaterials) : m_objectMaterials[i].tag # ret.name)
    => ret.result.result = FALSE

\* C4: m_loadedTextures never exceeds the 16 texture units.
C4_AtMostSixteenTextures == m_loadedTextures <= TextureSlots

\* C5: the tags of the registered entries are pairwise distinct.
C5_TagsUnique ==
    \A i, j \in Registered : i # j => m_textureIDs[i].tag # m_textureIDs[j].tag

\* C6: FindTextureID and FindTextureSlot return -1 exactly when no registered entry
\* has the tag, and otherwise the ID, respectively the index, of the first entry
\* with the tag; neither changes the registry.
C6_FindFirstOrSentinel ==
    [][/\ CallFindTextureSlot =>
            /\ UNCHANGED <<m_loadedTextures, m_textureIDs>>
            /\ ret'.result = -1 <=> EntriesWith(ret'.name) = {}
            /\ EntriesWith(ret'.name) # {} => ret'.result = Least(EntriesWith(ret'.name))
       /\ CallFindTextureID =>
            /\ UNCHANGED <<m_loadedTextures, m_textureIDs>>
            /\ ret'.result = -1 <=> EntriesWith(ret'.name) = {}
            /\ EntriesWith(ret'.name) # {} =>
                   ret'.result = m_textureIDs[Least(EntriesWith(ret'.name))].ID]_vars

\* FindTextureID found the first of two entries that share a tag
C6_Witness ==
    /\ ret.op = "FindTextureID"
    /\ m_loadedTextures = 2
    /\ m_textureIDs[0].tag = ret.name
    /\ m_textureIDs[1].tag = ret.name
    /\ m_textureIDs[0].ID # m_textureIDs[1].ID
    /\ ret.result = m_textureIDs[0].ID

CreateBindDraw == <<"CreateGLTexture", "BindGLTextures", "Draw">>

\* C7: with PrepareScene followed by RenderScene calls, BindGLTextures runs exactly
\* once, after the last CreateGLTexture call and before the first draw call, and
\* no CreateGLTexture call follows it.
C7_BindOnceBetweenLoadsAndDraws ==
    /\ ghost.nBind <= 1
    /\ ghost.order \in {SubSeq(CreateBindDraw, 1, n) : n \in 0..3}
    /\ ghost.nPrepares = 1 => ghost.nBind = 1
    /\ ghost.nDraw > 0 => ghost.nBind = 1

\* two frames were rendered after a PrepareScene in which a load failed
C7_Witness ==
    /\ ghost.nRenders = 2
    /\ ghost.nFailedLoads = 1
    /\ ghost.nBind = 1
    /\ ghost.order = CreateBindDraw
    /\ ghost.nDraw = 76

\* C8: BindGLTextures binds m_textureIDs[i].ID to unit i for every
\* i < m_loadedTextures, leaves the binding of every other unit as it was, and
\* does not change the registry.
C8_BindEveryRegisteredTexture ==
    [][CallBindGLTextures =>
           /\ \A i \in Registered : gl'.bound[i] = m_textureIDs[i].ID
           /\ \A u \in (0..(TextureSlots - 1)) \ Registered : gl'.bound[u] = gl.bound[u]
           /\ UNCHANGED <<m_loadedTextures, m_textureIDs>>]_vars

\* two textures with different handles were bound to units 0 and 1
C8_Witness ==
    /\ ret.op = "BindGLTextures"
    /\ m_loadedTextures = 2
    /\ gl.bound[0] = m_textureIDs[0].ID
    /\ gl.bound[1] = m_textureIDs[1].ID
    /\ gl.bound[0] # gl.bound[1]

DrawCalls == {"DrawPlaneMesh", "DrawBoxMesh", "DrawBoxMeshSide", "DrawSphereMesh",
              "DrawHalfSphereMesh", "DrawCylinderMesh", "DrawTorusMesh",
              "DrawTaperedCylinderMesh"}

IsTransformOrDraw(e) == e.call = "SetTransformations" \/ e.call \in DrawCalls

\* the SetTransformations and draw calls of the last public call, in order
TransformsAndDraws == SelectSeq(trace, IsTransformOrDraw)

Rendered == ret.op = "RenderScene" /\ fault = NoFault

\* C9 as claimed: in RenderScene every draw call directly follows a
\* SetTransformations call of its own, and every SetTransformations call is
\* followed by exactly one draw call.
C9_OneDrawPerTransform ==
    Rendered =>
        LET td == TransformsAndDraws
        IN  /\ Len(td) % 2 = 0
            /\ \A i \in 1..Len(td) :
                   IF i % 2 = 1 THEN td[i].call = "SetTransformations"
                   ELSE td[i].call \in DrawCalls

\* C9 as amended: in RenderScene the first of these calls is a SetTransformations
\* call and every SetTransformations call is directly followed by a draw call, so
\* every draw call has a SetTransformations call of the same RenderScene before it;
\* the 32 transforms serve 38 draw calls, at most five each.
C9_TransformBeforeDraws ==
    Rendered =>
        LET td == TransformsAndDraws
        IN  /\ Len(td) > 0
            /\ td[1].call = "SetTransformations"
            /\ \A i \in 1..Len(td) :
                   td[i].call = "SetTransformations" =>
                       i < Len(td) /\ td[i + 1].call \in DrawCalls
            /\ \A i \in 1..Len(td) :
                   td[i].call \in DrawCalls =>
                       \E j \in 1..5 : j < i /\ td[i - j].call = "SetTransformations"
            /\ Cardinality({i \in 1..Len(td) : td[i].call = "SetTransformations"}) = 32
            /\ Cardinality({i \in 1..Len(td) : td[i].call \in DrawCalls}) = 38

\* a frame was rendered in which one transform served five draw calls
C9_Witness ==
    /\ Rendered
    /\ \E i \in 1..(Len(TransformsAndDraws) - 5) :
           /\ TransformsAndDraws[i].call = "SetTransformations"
           /\ \A j \in 1..5 : TransformsAndDraws[i + j].call = "DrawBoxMeshSide"

\* C10: with a shader manager, once SetShaderTexture or SetShaderColor has been
\* called, bUseTexture is true exactly when the most recent of these calls was
\* SetShaderTexture.
C10_UseTextureIsLastSelection ==
    (m_pShaderManager # NULL /\ ghost.lastSelection # "none") =>
        /\ g_UseTextureName \in DOMAIN uniforms
        /\ uniforms[g_UseTextureName] = 1 <=> ghost.lastSelection = "texture"

\* a colour was selected after a texture
C10_Witness ==
    /\ m_pShaderManager # NULL
    /\ ret.op = "SetShaderColor"
    /\ ghost.lastSelection = "color"
    /\ g_TextureValueName \in DOMAIN uniforms
    /\ uniforms[g_UseTextureName] = 0

UniformSetters == {"setIntValue", "setFloatValue", "setVec2Value", "setVec3Value",
                   "setVec4Value", "setMat4Value", "setSampler2DValue"}

IsUniformWriteOrDraw(e) == e.call \in UniformSetters \/ e.call \in DrawCalls

\* the uniform writes (setter, name, value) and the draw calls (mesh, arguments)
\* among the events t, in order
FrameOutput(t) == SelectSeq(t, IsUniformWriteOrDraw)

\* C11: a RenderScene call that directly follows another RenderScene call makes the
\* same uniform writes (name and value) and the same draw calls (mesh, arguments),
\* in the same order, whichever texture loads of PrepareScene failed.
C11_FramesIdentical ==
    [][(ret.op = "RenderScene" /\ ret'.op = "RenderScene" /\ fault' = NoFault)
           => FrameOutput(trace') = FrameOutput(trace)]_vars

\* a second frame was rendered after a PrepareScene in which two loads failed
C11_Witness ==
    /\ Rendered
    /\ ghost.nRenders = 2
    /\ ghost.nFailedLoads = 2
    /\ Len(FrameOutput(trace)) > 38

\* what a 4x4 matrix makes of the point p
MatApply(M, p) ==
    [i \in 1..3 |-> (M[i][1] * p[1] + M[i][2] * p[2] + M[i][3] * p[3] + M[i][4] * One) \div One]

ScalePoint(p, k) == <<(p[1] * k[1]) \div One, (p[2] * k[2]) \div One, (p[3] * k[3]) \div One>>

MovePoint(p, d) == <<p[1] + d[1], p[2] + d[2], p[3] + d[3]>>

\* the number of counterclockwise quarter turns in an angle in hundredths of a degree
QuarterTurns(degrees) == (degrees \div 9000) % 4

\* the point p turned counterclockwise about an axis, seen from the axis' positive end
TurnAboutX(p, degrees) ==
    CASE QuarterTurns(degrees) = 0 -> p
      [] QuarterTurns(degrees) = 1 -> <<p[1], -p[3], p[2]>>
      [] QuarterTurns(degrees) = 2 -> <<p[1], -p[2], -p[3]>>
      [] QuarterTurns(degrees) = 3 -> <<p[1], p[3], -p[2]>>

TurnAboutY(p, degrees) ==
    CASE QuarterTurns(degrees) = 0 -> p
      [] QuarterTurns(degrees) = 1 -> <<p[3], p[2], -p[1]>>
      [] QuarterTurns(degrees) = 2 -> <<-p[1], p[2], -p[3]>>
      [] QuarterTurns(degrees) = 3 -> <<-p[3], p[2], p[1]>>

TurnAboutZ(p, degrees) ==
    CASE QuarterTurns(degrees) = 0 -> p
      [] QuarterTurns(degrees) = 1 -> <<-p[2], p[1], p[3]>>
      [] QuarterTurns(degrees) = 2 -> <<-p[1], -p[2], p[3]>>
      [] QuarterTurns(degrees) = 3 -> <<p[2], -p[1], p[3]>>

\* the origin and a point on each axis: they determine an affine map
ProbePoints == {<<0, 0, 0>>, <<100, 0, 0>>, <<0, 100, 0>>, <<0, 0, 100>>}

\* p scaled, then turned about X, about Y, about Z, then moved
ScaledTurnedMoved(p, a) ==
    MovePoint(TurnAboutZ(TurnAboutY(TurnAboutX(ScalePoint(p, <<a[1], a[2], a[3]>>),
                                               a[4]), a[5]), a[6]),
              <<a[7], a[8], a[9]>>)

SetTransformationsWrote == ret.op = "SetTransformations" /\ m_pShaderManager # NULL

\* C12: the matrix SetTransformations writes to the "model" uniform is
\* translation * rotationZ * rotationY * rotationX * scale: it scales a point first,
\* then turns it about X, about Y and about Z by the angles given in degrees, then
\* translates it, for every input.
C12_ModelIsTranslateRotateScale ==
    SetTransformationsWrote =>
        /\ uniforms[g_ModelName] =
               <<[m |-> "translate", v |-> SubSeq(trace[1].value, 7, 9)],
                 [m |-> "rotateZ", v |-> <<trace[1].value[6]>>],
                 [m |-> "rotateY", v |-> <<trace[1].value[5]>>],
                 [m |-> "rotateX", v |-> <<trace[1].value[4]>>],
                 [m |-> "scale", v |-> SubSeq(trace[1].value, 1, 3)]>>
        /\ \A p \in ProbePoints :
               MatApply(MatrixProduct(uniforms[g_ModelName]), p)
                   = ScaledTurnedMoved(p, trace[1].value)

\* a transformation in which the order matters: the scale factors differ, the turns
\* are about different axes and the translation is not zero
C12_Witness ==
    /\ SetTransformationsWrote
    /\ trace[1].value = <<200, 100, 300, 9000, 0, -9000, 100, 200, 300>>
    /\ MatApply(MatrixProduct(uniforms[g_ModelName]), <<100, 0, 0>>) = <<100, 0, 300>>
    /\ ScalePoint(TurnAboutX(TurnAboutZ(MovePoint(<<100, 0, 0>>, <<100, 200, 300>>),
                                        -9000), 9000), <<200, 100, 300>>)
           # <<100, 0, 300>>

\* the positions (from 1) of the defined materials that carry a tag
MaterialsWith(tag) == {i \in 1..Len(m_objectMaterials) : m_objectMaterials[i].tag = tag}

\* C13: when one or more defined materials carry the tag, FindMaterial copies the
\* diffuse colour, specular colour and shininess of the first of them in definition
\* order into the caller's material, for any sequence of definitions.
C13_FirstMaterialWins ==
    (ret.op = "FindMaterial" /\ MaterialsWith(ret.name) # {}) =>
        LET first == m_objectMaterials[Least(MaterialsWith(ret.name))]
        IN  /\ ret.result.material.diffuseColor = first.diffuseColor
            /\ ret.result.material.specularColor = first.specularColor
            /\ ret.result.material.shininess = first.shininess

\* a tag was looked up that two materials with different values carry, behind a
\* material with another tag
C13_Witness ==
    /\ ret.op = "FindMaterial"
    /\ Len(m_objectMaterials) = 3
    /\ m_objectMaterials[1].tag # ret.name
    /\ m_objectMaterials[2].tag = ret.name
    /\ m_objectMaterials[3].tag = ret.name
    /\ m_objectMaterials[2].shininess # m_objectMaterials[3].shininess
    /\ ret.result.material.shininess = m_objectMaterials[2].shininess

MaterialUniformNames == {"material.diffuseColor", "material.specularColor", "material.shininess"}

\* the material uniforms written so far, with their values
MaterialUniforms(u) == [n \in MaterialUniformNames \cap DOMAIN u |-> u[n]]

\* C14: a SetShaderMaterial call writes the three material uniforms only when a
\* defined material carries the tag, and then writes that material's values;
\* otherwise it leaves the three uniforms as they were.
C14_MaterialWrittenOnlyWhenDefined ==
    [][(MaterialSet /\ fault' = NoFault) =>
           IF MaterialsWith(ret'.name) # {}
           THEN LET first == m_objectMaterials[Least(MaterialsWith(ret'.name))]
                IN  MaterialUniforms(uniforms') =
                        [n \in MaterialUniformNames |->
                            CASE n = "material.diffuseColor" -> first.diffuseColor
                              [] n = "material.specularColor" -> first.specularColor
                              [] n = "material.shininess" -> first.shininess]
           ELSE MaterialUniforms(uniforms') = MaterialUniforms(uniforms)]_vars

\* the tags of the scene's textures whose load failed
FailedTags ==
    {SceneTextures[i].tag : i \in 1..Len(SceneTextures)}
        \ {ghost.okLoads[i] : i \in 1..Len(ghost.okLoads)}

IsDraw(e) == e.call \in DrawCalls

\* the draw calls RenderScene makes: <<mesh, side, arguments>>, in order
SceneDraws ==
    LET IsDrawStep(step) == step.op \in DrawCalls
        steps == SelectSeq(RenderSceneScript, IsDrawStep)
    IN  [i \in 1..Len(steps) |-> <<steps[i].op, steps[i].name, steps[i].a>>]

\* the positions in the last call's trace of the SetShaderTexture calls for a failed tag
FailedSelections ==
    {i \in 1..Len(trace) : trace[i].call = "SetShaderTexture" /\ trace[i].name \in FailedTags}

\* C15: in every RenderScene after a PrepareScene in which loads failed, each
\* SetShaderTexture call for a failed tag writes bUseTexture = true and then the
\* slot -1 to the objectTexture sampler, and RenderScene goes on to issue all of
\* its 38 draw calls.
C15_FailedTextureStillSelected ==
    Rendered =>
        /\ \A i \in FailedSelections :
               /\ i + 2 <= Len(trace)
               /\ trace[i + 1] = Event("setIntValue", g_UseTextureName, 1)
               /\ trace[i + 2] = Event("setSampler2DValue", g_TextureValueName, -1)
        /\ LET draws == SelectSeq(trace, IsDraw)
           IN  /\ Len(draws) = 38
               /\ \A i \in 1..Len(draws) :
                      <<draws[i].call, draws[i].name, draws[i].value>> = SceneDraws[i]

\* the second frame after a PrepareScene in which the loads of "counter" (the first
\* texture RenderScene selects) and "metal" (the last) failed
C15_Witness ==
    /\ Rendered
    /\ ghost.nRenders = 2
    /\ FailedTags = {"counter", "metal"}
    /\ Cardinality(FailedSelections) >= 2
    /\ uniforms[g_TextureValueName] = -1
    /\ uniforms[g_UseTextureName] = 1

\* the texture names that OpenGL holds: every name generated, as no call deletes one
AllocatedTextures(g) == 1..Len(g.tex)

\* C16: after DestroyGLTextures none of the handles that were registered before the
\* call is still allocated, and the call has allocated no new handle.
C16_DestroyFreesTextures ==
    [][CallDestroyGLTextures =>
           /\ \A i \in Registered : m_textureIDs[i].ID \notin AllocatedTextures(gl')
           /\ AllocatedTextures(gl') \subseteq AllocatedTextures(gl)]_vars

LoadCalls == {"Load" \o kind \o "Mesh" : kind \in MeshKinds}

\* the geometry a draw call of the mesh library renders from: the half sphere is
\* drawn from the sphere's geometry and the box sides from the box's
GeometryOf(call) ==
    CASE call = "DrawPlaneMesh" -> "Plane"
      [] call = "DrawBoxMesh" -> "Box"
      [] call = "DrawBoxMeshSide" -> "Box"
      [] call = "DrawSphereMesh" -> "Sphere"
      [] call = "DrawHalfSphereMesh" -> "Sphere"
      [] call = "DrawCylinderMesh" -> "Cylinder"
      [] call = "DrawTorusMesh" -> "Torus"
      [] call = "DrawTaperedCylinderMesh" -> "TaperedCylinder"

\* C17: no mesh kind is ever loaded more than once; a RenderScene call makes no
\* Load*Mesh call, however many frames are rendered; and the geometry of every
\* mesh that RenderScene draws has been loaded (once) by PrepareScene.
C17_MeshesLoadedOnce ==
    /\ \A kind \in MeshKinds : m_basicMeshes[kind] <= 1
    /\ ret.op = "RenderScene" =>
           \A i \in 1..Len(trace) :
               /\ trace[i].call \notin LoadCalls
               /\ trace[i].call \in DrawCalls =>
                      m_basicMeshes[GeometryOf(trace[i].call)] = 1

\* the second frame, with half spheres drawn from the sphere loaded once
C17_Witness ==
    /\ Rendered
    /\ ghost.nRenders = 2
    /\ m_basicMeshes["Sphere"] = 1
    /\ \E i \in 1..Len(trace) : trace[i].call = "DrawHalfSphereMesh"
    /\ \E i \in 1..Len(trace) : trace[i].call = "DrawTaperedCylinderMesh"

Prepared == ghost.nPrepares = 1 /\ fault = NoFault

\* C18: after PrepareScene, whichever loads failed, for every tag that was loaded
\* the texture unit FindTextureSlot gives is bound to the handle FindTextureID
\* gives, and that handle is the texture object holding the tag's own image: the
\* slot SetShaderTexture writes designates the unit with the tag's texture.
C18_SlotUnitHoldsOwnTexture ==
    Prepared =>
        \A i \in 1..Len(ghost.okLoads) :
            LET t == ghost.okLoads[i]
            IN  /\ FindTextureSlot(State, t) \in 0..(TextureSlots - 1)
                /\ FindTextureID(State, t) \in AllocatedTextures(gl)
                /\ gl.bound[FindTextureSlot(State, t)] = FindTextureID(State, t)
                /\ gl.tex[FindTextureID(State, t)].format =
                       (IF t = "plastic" THEN "GL_RGBA8" ELSE "GL_RGB8")
                /\ \A j \in 1..Len(ghost.okLoads) :
                       j # i => FindTextureID(State, ghost.okLoads[j]) # FindTextureID(State, t)

\* two loads failed after their handle was generated, so that slots and handles
\* drift apart: "plastic" is in slot 8 and has handle 11
C18_Witness ==
    /\ Prepared
    /\ Len(ghost.okLoads) = 9
    /\ gl.generated = 11
    /\ FindTextureSlot(State, "plastic") = 8
    /\ FindTextureID(State, "plastic") = 11
    /\ gl.bound[8] = 11

\* the tags PrepareScene hands to CreateGLTexture
SceneTextureTags == {SceneTextures[i].tag : i \in 1..Len(SceneTextures)}

\* the names that the calls of one method in the last public call's trace were given
NamesPassedTo(call) == {trace[i].name : i \in {j \in 1..Len(trace) : trace[j].call = call}}

\* the values the last public call wrote to the objectTexture sampler
SamplerWrites ==
    {trace[i].value : i \in {j \in 1..Len(trace) :
                                 /\ trace[j].call = "setSampler2DValue"
                                 /\ trace[j].name = g_TextureValueName}}

\* C19: every texture tag RenderScene passes to SetShaderTexture is one of the 11
\* tags PrepareScene loads, and every material tag it passes to SetShaderMaterial
\* is one of the 7 materials PrepareScene defines; so when all 11 loads succeeded,
\* no texture lookup of RenderScene yields -1, and no material lookup is unmatched.
C19_RenderTagsAreRegistered ==
    Rendered =>
        /\ Cardinality(SceneTextureTags) = 11
        /\ Cardinality({m_objectMaterials[i].tag : i \in 1..Len(m_objectMaterials)}) = 7
        /\ NamesPassedTo("SetShaderTexture") \subseteq SceneTextureTags
        /\ \A tag \in NamesPassedTo("SetShaderMaterial") : MaterialsWith(tag) # {}
        /\ ghost.nFailedLoads = 0 =>
               /\ \A tag \in NamesPassedTo("SetShaderTexture") :
                      /\ FindTextureSlot(State, tag) # -1
                      /\ FindTextureID(State, tag) # -1
               /\ -1 \notin SamplerWrites

\* a frame after a PrepareScene in which all 11 loads succeeded
C19_Witness ==
    /\ Rendered
    /\ ghost.nFailedLoads = 0
    /\ m_loadedTextures = 11
    /\ Cardinality(NamesPassedTo("SetShaderTexture")) = 11
    /\ Cardinality(NamesPassedTo("SetShaderMaterial")) = 7
    /\ SamplerWrites = 0..10

\* C20: whichever way a CreateGLTexture call returns (success, file not decoded,
\* unsupported channel count), the image buffer it decoded has been freed, every
\* texture handle it generated is recorded in the registry, and no texture it
\* bound is still bound to GL_TEXTURE_2D of the active unit.
C20_CreateLeavesNothingDangling ==
    [][CallCreateGLTexture =>
           LET generated == AllocatedTextures(gl') \ AllocatedTextures(gl)
           IN  /\ stbiLive' = stbiLive
               /\ \A id \in generated :
                      \E i \in 0..(m_loadedTextures' - 1) : m_textureIDs'[i].ID = id
               /\ gl'.bound[gl'.active] \notin generated]_vars

\* C21: with a NULL shader manager, none of SetTransformations, SetShaderColor,
\* SetShaderTexture, SetTextureUVScale, SetShaderMaterial and SetupSceneLights
\* dereferences the pointer or writes a uniform, whatever the registries hold.
C21_NullShaderManagerIsSafe ==
    m_pShaderManager = NULL =>
        /\ fault = NoFault
        /\ uniforms = <<>>
        /\ \A i \in 1..Len(trace) : trace[i].call \notin UniformSetters \cup {"setBoolValue"}

IsSelectionOrDraw(e) == e.call \in {"SetShaderTexture", "SetShaderColor"} \/ e.call \in DrawCalls

IsMaterialOrDraw(e) == e.call = "SetShaderMaterial" \/ e.call \in DrawCalls

\* the texture and colour selections and the draw calls of the last public call, in order
SelectionsAndDraws == SelectSeq(trace, IsSelectionOrDraw)

\* the SetShaderMaterial calls and the draw calls of the last public call, in order
MaterialsAndDraws == SelectSeq(trace, IsMaterialOrDraw)

\* the draw calls (by position in MaterialsAndDraws) that have no SetShaderMaterial
\* call between them and the draw call before
DrawsWithoutMaterial ==
    LET md == MaterialsAndDraws
    IN  {i \in 1..Len(md) :
            /\ md[i].call \in DrawCalls
            /\ i = 1 \/ md[i - 1].call \in DrawCalls}

\* C22: in RenderScene every draw call has a SetShaderTexture or SetShaderColor
\* call between it and the draw call before, but not every draw call has a
\* SetShaderMaterial call there: some are issued with the material uniforms that
\* an earlier object left.
C22_SelectionBeforeEveryDraw ==
    Rendered =>
        LET sd == SelectionsAndDraws
            unserved == DrawsWithoutMaterial
        IN  /\ \A i \in 1..Len(sd) :
                   sd[i].call \in DrawCalls =>
                       /\ i > 1
                       /\ sd[i - 1].call \in {"SetShaderTexture", "SetShaderColor"}
            /\ unserved # {}
            /\ \A i \in unserved : i > 1

\* a frame whose draw calls are 38, one of them after a colour selection, and 16
\* of them (stems, leaves, clock face and hands) without a material of their own
C22_Witness ==
    /\ Rendered
    /\ Len(SelectSeq(trace, IsDraw)) = 38
    /\ Cardinality(DrawsWithoutMaterial) = 16
    /\ LET sd == SelectionsAndDraws
       IN  \E i \in 2..Len(sd) :
               /\ sd[i].call = "DrawBoxMeshSide"
               /\ sd[i - 1].call = "SetShaderColor"

====
